---- MODULE Spec2Model ----
(***************************************************************************)
(* twarc-csv: the streaming JSON-lines to CSV conversion of csv_writer.py  *)
(* (CSVConverter) and dataframe_converter.py (DataFrameConverter).         *)
(*                                                                         *)
(* Two writers W = {1, 2} convert the same input file one after the other  *)
(* in one Python process, each to its own output file.  They either get    *)
(* their own DataFrameConverter each (both built from the same arguments)  *)
(* or are both built without a converter argument, in which case both hold *)
(* the one DataFrameConverter() object that the def statement of           *)
(* CSVConverter.__init__ evaluated as the parameter's default.             *)
(***************************************************************************)
EXTENDS Integers, Sequences, FiniteSets, TLC

(***************************************************************************)
(* Bounds of the model.                                                    *)
(***************************************************************************)
MaxLines == 2   \* lines in the input file
MaxBatch == 2   \* largest batch_size tried

(***************************************************************************)
(* Python values.  A value carries its runtime type as a tag; a str is a   *)
(* sequence of chunks in which a carriage return, a newline, a quote or a  *)
(* backslash is always a chunk of its own.  A dict is a function from keys *)
(* (TLA+ strings) to values.                                               *)
(***************************************************************************)
None == [t |-> "none"]
NaN == [t |-> "nan"]
Str(s) == [t |-> "str", v |-> s]
Num(n) == [t |-> "int", v |-> n]
Dict(f) == [t |-> "dict", v |-> f]
List(s) == [t |-> "list", v |-> s]
EmptyDict == [k \in {} |-> None]

CR == "\r"
LF == "\n"

Range(s) == {s[i] : i \in DOMAIN s}

\* The element of a one-element set.  Only({e(x) : x \in {v}}) is e(x) with x
\* bound to the value of v, evaluated once.
Only(S) == CHOOSE x \in S : TRUE

\* d[k] = v
Put(d, k, v) == [x \in DOMAIN d \cup {k} |-> IF x = k THEN v ELSE d[x]]
\* d.pop(k, None), the dict that is left
Pop(d, k) == [x \in DOMAIN d \ {k} |-> d[x]]
\* d.pop(k, default), the value returned
PopValue(d, k, default) == IF k \in DOMAIN d THEN d[k] ELSE default
\* bool(v) of an optional dict-like value
Truthy(v) ==
  CASE v.t = "none" -> FALSE
    [] v.t = "nan" -> FALSE
    [] v.t = "dict" -> DOMAIN v.v # {}
    [] v.t = "list" -> v.v # <<>>
    [] v.t = "str" -> v.v # <<>>
    [] v.t = "int" -> v.v # 0
    [] OTHER -> TRUE

RECURSIVE Join(_)
\* the Python str as one key
Join(chunks) == IF chunks = <<>> THEN "" ELSE chunks[1] \o Join(Tail(chunks))

RECURSIVE Concat(_)
\* itertools.chain.from_iterable
Concat(ss) == IF ss = <<>> THEN <<>> ELSE ss[1] \o Concat(Tail(ss))

(***************************************************************************)
(* Declared column families (dataframe_converter.py:13-166), abridged to   *)
(* the columns the model's records can produce.  Each source constant is a *)
(* triple-quoted text split on newlines, so it ends with an empty name.    *)
(***************************************************************************)
DEFAULT_TWEET_COLUMNS ==
  << "id", "referenced_tweets.replied_to.id", "referenced_tweets.retweeted.id",
     "referenced_tweets.quoted.id", "author_id", "in_reply_to_user_id",
     "retweeted_user_id", "quoted_user_id", "text",
     "public_metrics.like_count", "entities.hashtags", "context_annotations",
     "attachments.media_keys", "__twarc.url", "" >>

DEFAULT_COUNTS_COLUMNS == << "start", "end", "tweet_count", "__twarc.url", "" >>

\* self.columns.extend(x for x in xs if x not in self.columns)
RECURSIVE ExtendUnique(_, _)
ExtendUnique(cols, xs) ==
  IF xs = <<>> THEN cols
  ELSE Only({ ExtendUnique(c, Tail(xs)) :
              c \in {IF xs[1] \in Range(cols) THEN cols ELSE Append(cols, xs[1])} })

ZeroCounts(ncols, nout) ==
  [ lines |-> 0, tweets |-> 0, referenced_tweets |-> 0, retweets |-> 0,
    quotes |-> 0, replies |-> 0, unavailable |-> 0, non_objects |-> 0,
    parse_errors |-> 0, duplicates |-> 0, rows |-> 0,
    input_columns |-> ncols, output_columns |-> nout ]

\* The keyword defaults of DataFrameConverter.__init__; extra_input_columns
\* and output_columns are the comma separated texts already split, the
\* empty sequence standing for "" and for None.
DefaultArgs ==
  [ input_data_type |-> "tweets", json_encode_all |-> FALSE,
    json_encode_text |-> FALSE, json_encode_lists |-> TRUE,
    inline_referenced_tweets |-> FALSE, merge_retweets |-> TRUE,
    allow_duplicates |-> FALSE, extra_input_columns |-> <<>>,
    output_columns |-> <<>> ]

InputColumns(a) ==
  LET c1 == IF a.input_data_type = "tweets"
            THEN ExtendUnique(<<>>, DEFAULT_TWEET_COLUMNS) ELSE <<>>
      c2 == IF a.input_data_type = "counts"
            THEN ExtendUnique(c1, DEFAULT_COUNTS_COLUMNS) ELSE c1
  IN  IF a.extra_input_columns # <<>>
      THEN ExtendUnique(c2, a.extra_input_columns) ELSE c2

\* DataFrameConverter.__init__: the new converter object
DataFrameConverter(a) ==
  LET columns == InputColumns(a)
      output_columns == IF a.output_columns # <<>> THEN a.output_columns
                        ELSE columns
  IN  [ json_encode_all |-> a.json_encode_all,
        json_encode_text |-> a.json_encode_text,
        json_encode_lists |-> a.json_encode_lists,
        inline_referenced_tweets |-> a.inline_referenced_tweets,
        merge_retweets |-> a.merge_retweets,
        allow_duplicates |-> a.allow_duplicates,
        input_data_type |-> a.input_data_type,
        columns |-> columns,
        output_columns |-> output_columns,
        dataset_ids |-> {},
        counts |-> ZeroCounts(Len(columns), Len(output_columns)) ]

(***************************************************************************)
(* DataFrameConverter._format_tweet                                        *)
(***************************************************************************)
\* [t for t in tweet["referenced_tweets"] if t["type"] == type][-1], or None
LastOfType(refs, type) ==
  LET idx == {i \in DOMAIN refs : refs[i].v["type"] = Str(<<type>>)}
  IN  IF idx = {} THEN None ELSE refs[CHOOSE i \in idx : \A j \in idx : j <= i]

\* a merge that keeps the retweet's own value
MergeField_KeepsOwn(tweet, rt, k) == tweet

\* tweet[k] = retweeted_tweet.pop(k, tweet.pop(k, None))
MergeField(tweet, rt, k) ==
  Put(tweet, k, PopValue(rt, k, PopValue(tweet, k, None)))

MergedFields ==
  <<"text", "entities", "attachments", "context_annotations", "public_metrics">>

RECURSIVE MergeRetweet(_, _, _)
MergeRetweet(tweet, rt, ks) ==
  IF ks = <<>> THEN tweet
  ELSE Only({ MergeRetweet(t, rt, Tail(ks)) : t \in {MergeField(tweet, rt, ks[1])} })

\* a formatter that leaves the referenced tweets in the record
PointerForm_KeepsList(refs) == List(refs)

\* dict(ChainMap(*[{r["type"]: {"id": r["id"]}} for r in refs])): the first
\* reference of each type wins
PointerForm(refs) ==
  LET types == {Join(refs[i].v["type"].v) : i \in DOMAIN refs}
      first(ty) == CHOOSE i \in DOMAIN refs :
                     /\ Join(refs[i].v["type"].v) = ty
                     /\ \A j \in DOMAIN refs :
                          Join(refs[j].v["type"].v) = ty => i <= j
  IN  Dict([ty \in types |-> Dict("id" :> refs[first(ty)].v["id"])])

\* if k in tweet and not tweet[k]: tweet.pop(k, None), for each k of ks
RECURSIVE PopIfEmpty(_, _)
PopIfEmpty(tweet, ks) ==
  IF ks = <<>> THEN tweet
  ELSE Only({ PopIfEmpty(t, Tail(ks)) :
              t \in {IF ks[1] \in DOMAIN tweet /\ ~Truthy(tweet[ks[1]])
                     THEN Pop(tweet, ks[1]) ELSE tweet} })

EmptyObjects == <<"attachments", "entities", "public_metrics", "pinned_tweet">>

\* the branch of _format_tweet for a tweet with referenced_tweets
FormatReferences(t1, merge_retweets) ==
  LET refs == t1["referenced_tweets"].v
      rt == LastOfType(refs, "retweeted")
      qt == LastOfType(refs, "quoted")
      t2 == IF Truthy(rt) /\ "author_id" \in DOMAIN rt.v
            THEN Put(t1, "retweeted_user_id", rt.v["author_id"])
            ELSE t1
      t3 == IF Truthy(qt) /\ "author_id" \in DOMAIN qt.v
            THEN Put(t2, "quoted_user_id", qt.v["author_id"])
            ELSE t2
      t4 == IF Truthy(rt) /\ merge_retweets
            THEN MergeRetweet(t3, rt.v, MergedFields)
            ELSE t3
  IN  Put(t4, "referenced_tweets", PointerForm(refs))

\* the tweet returned by _format_tweet
FormatTweet(tweet0, merge_retweets) ==
  Only({ Only({ PopIfEmpty(Pop(t5, "type"), EmptyObjects) :
                t5 \in {IF "referenced_tweets" \in DOMAIN t1
                        THEN FormatReferences(t1, merge_retweets)
                        ELSE Put(t1, "referenced_tweets", Dict(EmptyDict))} }) :
         t1 \in {Pop(Pop(tweet0, "pinned_tweet"), "in_reply_to_user")} })

\* the counters after _format_tweet(tweet0)
FormatCounts(tweet0, counts) ==
  IF "referenced_tweets" \in DOMAIN tweet0
  THEN LET refs == tweet0["referenced_tweets"].v
           reply == LastOfType(refs, "replied_to")
           rt == LastOfType(refs, "retweeted")
           qt == LastOfType(refs, "quoted")
           nreply == IF "in_reply_to_user_id" \in DOMAIN tweet0 \/ Truthy(reply)
                     THEN 1 ELSE 0
           nrt == IF Truthy(rt) /\ "author_id" \in DOMAIN rt.v THEN 1 ELSE 0
           nqt == IF Truthy(qt) /\ "author_id" \in DOMAIN qt.v THEN 1 ELSE 0
       IN  [counts EXCEPT !.replies = @ + nreply, !.retweets = @ + nrt,
                          !.quotes = @ + nqt]
  ELSE counts

(***************************************************************************)
(* DataFrameConverter._inline_referenced_tweets                            *)
(***************************************************************************)
\* a referenced tweet with more than this many keys is written as a row
StubKeys == 3

\* an expander that takes every reference for an expanded one
IsAvailable_Always(referenced_tweet) == TRUE

\* write tweet as new row if the referenced tweet exists
IsAvailable(referenced_tweet) == Cardinality(DOMAIN referenced_tweet) > StubKeys

\* the loop over tweet["referenced_tweets"]: the formatted tweets it yields,
\* the references as the loop leaves them in the parent, and the counters
RECURSIVE InlineLoop(_, _, _, _)
InlineLoop(refs, twarc, merge_retweets, counts) ==
  IF refs = <<>> THEN [out |-> <<>>, refs |-> <<>>, counts |-> counts]
  ELSE Only({
         Only({ [ out |-> (IF IsAvailable(r)
                           THEN <<FormatTweet(r, merge_retweets)>> ELSE <<>>)
                          \o rest.out,
                  refs |-> <<Dict(r)>> \o rest.refs,
                  counts |-> rest.counts ] :
                rest \in { InlineLoop(Tail(refs), twarc, merge_retweets,
                             IF IsAvailable(r)
                             THEN FormatCounts(r, [counts EXCEPT
                                                     !.referenced_tweets = @ + 1])
                             ELSE [counts EXCEPT !.referenced_tweets = @ + 1,
                                                 !.unavailable = @ + 1]) } }) :
         r \in {Put(refs[1].v, "__twarc", twarc)} })

\* the records the generator yields for one tweet, in order, and the counters
InlineReferencedTweets(tweet, cv) ==
  IF "referenced_tweets" \in DOMAIN tweet /\ cv.inline_referenced_tweets
  THEN Only({
         Only({ [ out |-> Append(loop.out, FormatTweet(parent, cv.merge_retweets)),
                  counts |-> FormatCounts(parent, loop.counts) ] :
                parent \in {Put(tweet, "referenced_tweets", List(loop.refs))} }) :
         loop \in { InlineLoop(tweet["referenced_tweets"].v,
                               IF "__twarc" \in DOMAIN tweet THEN tweet["__twarc"]
                               ELSE None,
                               cv.merge_retweets, cv.counts) } })
  ELSE [ out |-> <<FormatTweet(tweet, cv.merge_retweets)>>,
         counts |-> FormatCounts(tweet, cv.counts) ]

(***************************************************************************)
(* DataFrameConverter._process_tweets                                      *)
(***************************************************************************)
\* a converter that yields every tweet with an id
Yields_All(tweet_id, dataset_ids, allow_duplicates) == TRUE

\* whether a tweet with an id is yielded
Yields(tweet_id, dataset_ids, allow_duplicates) ==
  IF allow_duplicates THEN TRUE ELSE tweet_id \notin dataset_ids

\* a converter that forgets the ids it has seen
AddId_Forgets(dataset_ids, tweet_id) == dataset_ids

\* self.dataset_ids after the tweet
AddId(dataset_ids, tweet_id) == dataset_ids \cup {tweet_id}

\* a converter that lets every record without id through
PassesWithoutId_Always(input_data_type) == TRUE

\* elif self.input_data_type == "counts": the records of the counts
\* endpoint carry no id
PassesWithoutId(input_data_type) == input_data_type = "counts"

\* one turn of the loop: whether the tweet is yielded, and the converter after
ProcessTweet(tweet, cv) ==
  IF "id" \in DOMAIN tweet
  THEN LET tweet_id == tweet["id"]
           dup == IF tweet_id \in cv.dataset_ids THEN 1 ELSE 0
       IN  [ yield |-> Yields(tweet_id, cv.dataset_ids, cv.allow_duplicates),
             cv |-> [cv EXCEPT !.counts.tweets = @ + 1,
                               !.counts.duplicates = @ + dup,
                               !.dataset_ids = AddId(@, tweet_id)] ]
  ELSE IF PassesWithoutId(cv.input_data_type)
  THEN [ yield |-> TRUE, cv |-> [cv EXCEPT !.counts.tweets = @ + 1] ]
  ELSE [ yield |-> FALSE, cv |-> [cv EXCEPT !.counts.non_objects = @ + 1] ]

\* the whole loop: kept[i] tells whether tweets[i] was yielded
RECURSIVE ProcessTweets(_, _)
ProcessTweets(tweets, cv) ==
  IF tweets = <<>> THEN [kept |-> <<>>, cv |-> cv]
  ELSE Only({
         Only({ [kept |-> <<one.yield>> \o rest.kept, cv |-> rest.cv] :
                rest \in {ProcessTweets(Tail(tweets), one.cv)} }) :
         one \in {ProcessTweet(tweets[1], cv)} })

(***************************************************************************)
(* The tables.  A DataFrame is [columns, rows]; a row maps each column to  *)
(* its cell.  pandas.json_normalize turns the keys of nested dicts into    *)
(* dotted column names; the order of the observed columns is not used by   *)
(* the program (set(_df.columns), len(_df.columns)), so JsonNormalize keeps    *)
(* them as a set.                                                          *)
(***************************************************************************)
RECURSIVE FlattenPairs(_, _)
FlattenPairs(d, prefix) ==
  UNION { IF d[k].t = "dict" THEN FlattenPairs(d[k].v, prefix \o k \o ".")
          ELSE {<<prefix \o k, d[k]>>} : k \in DOMAIN d }

\* one record of json_normalize
Flatten(d) ==
  Only({ [c \in {p[1] : p \in ps} |-> (CHOOSE p \in ps : p[1] = c)[2]] :
         ps \in {FlattenPairs(d, "")} })

\* pd.json_normalize(list(tweet_batch))
JsonNormalize(tweets) ==
  Only({ [colset |-> UNION {DOMAIN rows[i] : i \in DOMAIN rows}, rows |-> rows] :
         rows \in {[i \in DOMAIN tweets |-> Flatten(tweets[i])]} })

\* _df.reindex(columns=columns)
Reindex(nt, columns) ==
  [ columns |-> columns,
    rows |-> [i \in DOMAIN nt.rows |->
                [c \in Range(columns) |->
                   IF c \in DOMAIN nt.rows[i] THEN nt.rows[i][c] ELSE NaN]] ]

\* pd.DataFrame(columns=columns)
EmptyFrame(columns) == [columns |-> columns, rows |-> <<>>]

IsNA(x) == x.t \in {"none", "nan"}

(***************************************************************************)
(* json.dumps, to the text it returns.  A dict of the model has no         *)
(* insertion order; its items are encoded in one fixed order per key set.  *)
(***************************************************************************)
EscapeChunk(c) ==
  CASE c = LF -> <<"\\", "n">>
    [] c = CR -> <<"\\", "r">>
    [] c = "\"" -> <<"\\", "\"">>
    [] c = "\\" -> <<"\\", "\\">>
    [] OTHER -> <<c>>

JsonString(chunks) ==
  <<"\"">> \o Concat([i \in DOMAIN chunks |-> EscapeChunk(chunks[i])]) \o <<"\"">>

RECURSIVE JoinItems(_)
JoinItems(items) ==
  IF items = <<>> THEN <<>>
  ELSE IF Len(items) = 1 THEN items[1]
  ELSE items[1] \o <<", ">> \o JoinItems(Tail(items))

RECURSIVE JsonText(_)
RECURSIVE JsonItems(_, _)
JsonItems(d, keys) ==
  IF keys = {} THEN <<>>
  ELSE LET k == CHOOSE x \in keys : TRUE
       IN  <<JsonString(<<k>>) \o <<": ">> \o JsonText(d[k])>>
           \o JsonItems(d, keys \ {k})
JsonText(x) ==
  CASE x.t = "str" -> JsonString(x.v)
    [] x.t = "int" -> <<ToString(x.v)>>
    [] x.t = "none" -> <<"null">>
    [] x.t = "nan" -> <<"NaN">>
    [] x.t = "list" ->
         <<"[">> \o JoinItems([i \in DOMAIN x.v |-> JsonText(x.v[i])]) \o <<"]">>
    [] x.t = "dict" ->
         <<"{">> \o JoinItems(JsonItems(x.v, DOMAIN x.v)) \o <<"}">>

JsonDumps(x) == Str(JsonText(x))

(***************************************************************************)
(* DataFrameConverter._process_dataframe                                   *)
(***************************************************************************)
\* an escape that keeps the carriage returns
EscapeNewlines_KeepsCR(chunks) ==
  Concat([i \in DOMAIN chunks |->
            IF chunks[i] = LF THEN <<"\\", "n">> ELSE <<chunks[i]>>])

\* x.replace("\r", "").replace("\n", r"\n")
RECURSIVE EscapeNewlines(_)
EscapeNewlines(chunks) ==
  IF chunks = <<>> THEN <<>>
  ELSE (CASE chunks[1] = CR -> <<>>
          [] chunks[1] = LF -> <<"\\", "n">>
          [] OTHER -> <<chunks[1]>>) \o EscapeNewlines(Tail(chunks))

EncodeText(x) == IF x.t = "str" THEN JsonDumps(x) ELSE x
EscapeText(x) == IF x.t = "str" THEN Str(EscapeNewlines(x.v)) ELSE x
\* pd.api.types.is_list_like
IsListLike(x) == x.t \in {"list", "dict"}
\* a list encoder that takes a str for a list
EncodeList_AlsoText(x) == IF x.t = "str" \/ IsListLike(x) THEN JsonDumps(x) ELSE x

\* json.dumps(x) if pd.api.types.is_list_like(x) else x
EncodeList(x) == IF IsListLike(x) THEN JsonDumps(x) ELSE x

\* the function handed to applymap, applied to one cell
Call(f, x) ==
  CASE f = "json.dumps" -> JsonDumps(x)
    [] f = "encode_text" -> EncodeText(x)
    [] f = "escape_text" -> EscapeText(x)
    [] f = "encode_list" -> EncodeList(x)

\* _df.applymap(f, na_action="ignore")
ApplyMap(frame, f) ==
  [ frame EXCEPT !.rows =
      [i \in DOMAIN @ |-> [c \in DOMAIN @[i] |->
                             IF IsNA(@[i][c]) THEN @[i][c] ELSE Call(f, @[i][c])]] ]

ProcessDataframe(frame, cv) ==
  IF cv.json_encode_all THEN ApplyMap(frame, "json.dumps")
  ELSE Only({ IF cv.json_encode_lists THEN ApplyMap(f1, "encode_list") ELSE f1 :
              f1 \in {IF cv.json_encode_text THEN ApplyMap(frame, "encode_text")
                      ELSE ApplyMap(frame, "escape_text")} })

(***************************************************************************)
(* DataFrameConverter.process, from the json_normalize on: the table       *)
(* returned for the records of one batch and the counters after it.        *)
(***************************************************************************)
\* set(_df.columns) - set(self.columns)
Diff(nt, columns) == nt.colset \ Range(columns)

\* the empty table returned when the batch is skipped
SkippedFrame(cv) == EmptyFrame(cv.columns)

\* a converter that counts one error for a skipped batch
SkippedErrors_One(nt) == 1

\* self.counts["parse_errors"] += len(_df)
SkippedErrors(nt) == Len(nt.rows)

ProcessBatch(tweet_batch, cv) ==
  Only({ IF Cardinality(Diff(nt, cv.columns)) > 0
         THEN [ df |-> SkippedFrame(cv),
                counts |-> [cv.counts EXCEPT !.parse_errors = @ + SkippedErrors(nt)] ]
         ELSE [ df |-> Only({ProcessDataframe(f, cv) : f \in {Reindex(nt, cv.columns)}}),
                counts |-> cv.counts ] :
         nt \in {JsonNormalize(tweet_batch)} })

(***************************************************************************)
(* CSVConverter._write_output                                              *)
(***************************************************************************)
\* a writer that asks for the header with every batch
ModeHeader_Always(first_batch) ==
  [mode |-> IF first_batch THEN "w" ELSE "a+", header |-> TRUE]

\* mode and header for the batch
ModeHeader(first_batch) ==
  IF first_batch THEN [mode |-> "w", header |-> TRUE]
  ELSE [mode |-> "a+", header |-> FALSE]

\* the lines DataFrame.to_csv writes for the frame: the header line when
\* asked, then one line per row with the cells of the selected columns
CsvLines(frame, columns, header) ==
  (IF header
   THEN <<[h |-> TRUE, cells |-> [i \in DOMAIN columns |-> Str(<<columns[i]>>)]]>>
   ELSE <<>>)
  \o [r \in DOMAIN frame.rows |->
        [h |-> FALSE, cells |-> [i \in DOMAIN columns |-> frame.rows[r][columns[i]]]]]

\* a writer that does not select the columns
CsvColumns_OfFrame(frame, columns) == frame.columns

\* the columns to_csv selects; selecting a column the frame lacks is a KeyError
CsvColumns(frame, columns) == columns
\* a writer that fails on a table without rows
CsvKeyError_EmptyFrame(frame, columns) ==
  \/ frame.rows = <<>>
  \/ ~(Range(CsvColumns(frame, columns)) \subseteq Range(frame.columns))

CsvKeyError(frame, columns) == ~(Range(CsvColumns(frame, columns)) \subseteq Range(frame.columns))

\* a writer that opens the file with mode "w" for every batch
ToCsv_Truncates(file, frame, mode, columns, header) ==
  CsvLines(frame, CsvColumns(frame, columns), header)

\* a writer that puts the lines of a later batch before those of the earlier
ToCsv_Prepends(file, frame, mode, columns, header) ==
  CsvLines(frame, CsvColumns(frame, columns), header)
  \o (IF mode = "w" THEN <<>> ELSE file)

\* the file after to_csv
ToCsv(file, frame, mode, columns, header) ==
  (IF mode = "w" THEN <<>> ELSE file)
  \o CsvLines(frame, CsvColumns(frame, columns), header)

(***************************************************************************)
(* DataFrameConverter.process, up to list(tweet_batch): every record that  *)
(* ensure_flattened returns for one parsed line goes through               *)
(* _inline_referenced_tweets and _process_tweets.  Per record: the records *)
(* the expander yields and which of them _process_tweets lets through.     *)
(***************************************************************************)
RECURSIVE TweetBatch(_, _)
TweetBatch(recs, cv) ==
  IF recs = <<>> THEN [groups |-> <<>>, cv |-> cv]
  ELSE Only({
         Only({
           Only({ [ groups |-> <<[out |-> inl.out, kept |-> pt.kept]>> \o rest.groups,
                    cv |-> rest.cv ] :
                  rest \in {TweetBatch(Tail(recs), pt.cv)} }) :
           pt \in {ProcessTweets(inl.out, [cv EXCEPT !.counts = inl.counts])} }) :
         inl \in {InlineReferencedTweets(recs[1], cv)} })

RECURSIVE SelectKept(_, _)
SelectKept(xs, kept) ==
  IF xs = <<>> THEN <<>>
  ELSE (IF kept[1] THEN <<xs[1]>> ELSE <<>>) \o SelectKept(Tail(xs), Tail(kept))

IdOf(tweet) == IF "id" \in DOMAIN tweet THEN tweet["id"] ELSE None

(***************************************************************************)
(* The input file: each line is blank, or does not parse as JSON, or       *)
(* parses to an object for which twarc's ensure_flattened returns the      *)
(* given flat records.                                                     *)
(***************************************************************************)
Twarc == Dict("url" :> Str(<<"u">>))
Tweet1 ==
  ("id" :> Str(<<"1">>)) @@ ("text" :> Str(<<"a", CR, LF, "b">>))
  @@ ("author_id" :> Str(<<"9">>)) @@ ("__twarc" :> Twarc)
Tweet2 ==
  ("id" :> Str(<<"2">>)) @@ ("text" :> Str(<<"c">>)) @@ ("__twarc" :> Twarc)
\* a tweet with a field outside the declared columns
Tweet1Extra == Put(Tweet1, "foo", Str(<<"x">>))
\* a bucket of the counts endpoint: no id
CountBucket ==
  ("start" :> Str(<<"s">>)) @@ ("end" :> Str(<<"e">>))
  @@ ("tweet_count" :> Num(5)) @@ ("__twarc" :> Twarc)
\* an embedded reference with its payload, and one the API did not expand
RefQuoted1 ==
  ("type" :> Str(<<"quoted">>)) @@ ("id" :> Str(<<"1">>))
  @@ ("text" :> Str(<<"a", CR, LF, "b">>)) @@ ("author_id" :> Str(<<"9">>))
RefStub3 == ("type" :> Str(<<"replied_to">>)) @@ ("id" :> Str(<<"3">>))
Quote2 ==
  Put(Tweet2, "referenced_tweets", List(<<Dict(RefQuoted1), Dict(RefStub3)>>))

BlankLine == [k |-> "blank"]
BadLine == [k |-> "bad"]
JsonLine(recs) == [k |-> "json", recs |-> recs]

LineKinds ==
  { BlankLine, BadLine, JsonLine(<<Tweet1>>), JsonLine(<<Tweet1Extra>>),
    JsonLine(<<CountBucket>>), JsonLine(<<Quote2>>),
    JsonLine(<<Tweet2, Tweet1>>) }

Inputs == UNION {[1..n -> LineKinds] : n \in 0..MaxLines}

\* the converter arguments tried
ArgChoices ==
  { [DefaultArgs EXCEPT !.inline_referenced_tweets = inl,
                        !.allow_duplicates = dup] :
      inl \in BOOLEAN, dup \in BOOLEAN }
  \cup { [DefaultArgs EXCEPT !.inline_referenced_tweets = TRUE,
                             !.output_columns = oc] :
           oc \in { <<"text", "id">>, <<"id", "nope">> } }
  \cup { [DefaultArgs EXCEPT !.input_data_type = "counts"],
         [DefaultArgs EXCEPT !.extra_input_columns = <<"foo">>] }

\* the batch sizes of the two runs: the second run repeats the batch size
\* of the first or converts line by line
BatchSizeChoices ==
  { <<b1, b2>> \in (1..MaxBatch) \X (1..MaxBatch) : b2 = b1 \/ b2 = 1 }

(***************************************************************************)
(* State.                                                                  *)
(***************************************************************************)
W == {1, 2}

VARIABLES
  input,        \* the lines of the input file
  shared,       \* both writers were built without a converter argument
  batch_size,   \* batch_size[w]
  conv,         \* the DataFrameConverter objects: 0 is the default argument
  pc,           \* where process() of writer w is
  pos,          \* lines writer w has read
  chunk,        \* parsed lines in the current ichunked chunk of w
  tweet_batch,  \* list(tweet_batch) of w so far
  df,           \* the table converter.process returned to w
  first_batch,  \* the local flag of process()
  outfile,      \* the lines of the output file of w
  hist,         \* what each run did, for stating the properties
  cli,          \* infile.name and outfile.name when the csv command is used
  fx            \* one function of the converter applied to one argument

vars == << input, shared, batch_size, conv, pc, pos, chunk, tweet_batch, df,
           first_batch, outfile, hist, cli, fx >>

\* self.converter of writer w
ConvOf(w) == IF shared THEN 0 ELSE w

NoFrame == EmptyFrame(<<>>)

\* the two writers are constructed; nothing has run yet
Constructed ==
  /\ input \in Inputs
  /\ IF shared
     THEN conv = (0 :> DataFrameConverter(DefaultArgs))
     ELSE \E a \in ArgChoices :
            conv = (0 :> DataFrameConverter(DefaultArgs))
                   @@ (1 :> DataFrameConverter(a)) @@ (2 :> DataFrameConverter(a))
  /\ pc = [w \in W |-> "new"]
  /\ pos = [w \in W |-> 0]
  /\ chunk = [w \in W |-> 0]
  /\ tweet_batch = [w \in W |-> <<>>]
  /\ df = [w \in W |-> NoFrame]
  /\ first_batch = [w \in W |-> FALSE]
  /\ outfile = [w \in W |-> <<>>]
  /\ hist = [w \in W |-> [stream |-> <<>>, batchsrc |-> <<>>, rowsrc |-> <<>>,
                          batches |-> <<>>, final |-> <<>>]]

\* the writer is used as a library: no command line
NoCli == [infile |-> "", outfile |-> ""]
\* no function is looked at on its own
NoFx == [fn |-> "", arg |-> <<>>, res |-> <<>>]

\* one conversion: writer 1 with a converter of its own
Init ==
  /\ cli = NoCli /\ fx = NoFx
  /\ shared = FALSE
  /\ \E b \in 1..MaxBatch : batch_size = <<b, 1>>
  /\ Constructed

\* two conversions of the same file in one process
InitTwoRuns ==
  /\ cli = NoCli /\ fx = NoFx
  /\ shared \in BOOLEAN
  /\ batch_size \in BatchSizeChoices
  /\ Constructed

(***************************************************************************)
(* CSVConverter.process, one writer after the other.                       *)
(***************************************************************************)
Finished(w) == pc[w] \in {"done", "error"}

\* process() is called: first_batch = True, the loop starts
StartProcess(w) ==
  /\ pc[w] = "new"
  /\ \A v \in W : v < w => Finished(v)
  /\ pc' = [pc EXCEPT ![w] = "read"]
  /\ first_batch' = [first_batch EXCEPT ![w] = TRUE]
  /\ UNCHANGED << cli, fx, input, shared, batch_size, conv, pos, chunk, tweet_batch, df,
                  outfile, hist >>

\* a reader that takes a blank line for a line that fails to parse
LineCounts_BlankFails(counts, line) ==
  [counts EXCEPT !.lines = @ + 1,
                 !.parse_errors = @ + (IF line.k = "json" THEN 0 ELSE 1)]

\* the counters after _read_lines has taken the line
LineCounts(counts, line) ==
  [counts EXCEPT !.lines = @ + 1,
                 !.parse_errors = @ + (IF line.k = "bad" THEN 1 ELSE 0)]

\* what reading the next line does to the converter and to the batch
ReadResult(line, cv, at) ==
  CASE line.k \in {"blank", "bad"} ->
         [cv |-> [cv EXCEPT !.counts = LineCounts(@, line)], parsed |-> 0,
          tweets |-> <<>>, stream |-> <<>>]
    [] line.k = "json" ->
         Only({ [ cv |-> tb.cv, parsed |-> 1,
                  tweets |-> Concat([i \in DOMAIN tb.groups |->
                               SelectKept(tb.groups[i].out, tb.groups[i].kept)]),
                  stream |-> Concat([i \in DOMAIN tb.groups |->
                    [j \in DOMAIN tb.groups[i].out |->
                       [id |-> IdOf(tb.groups[i].out[j]), line |-> at, rec |-> i,
                        child |-> j < Len(tb.groups[i].out),
                        kept |-> tb.groups[i].kept[j]]]]) ] :
                tb \in {TweetBatch(line.recs, [cv EXCEPT !.counts = LineCounts(@, line)])} })

\* _read_lines reads one line; a parsed line joins the chunk and its records
\* are pulled through the converter's generators
ReadLine(w) ==
  /\ pc[w] = "read"
  /\ pos[w] < Len(input)
  /\ chunk[w] < batch_size[w]
  /\ \E r \in {ReadResult(input[pos[w] + 1], conv[ConvOf(w)], pos[w] + 1)} :
     LET n == Len(hist[w].stream)
     IN  /\ conv' = [conv EXCEPT ![ConvOf(w)] = r.cv]
         /\ chunk' = [chunk EXCEPT ![w] = @ + r.parsed]
         /\ tweet_batch' = [tweet_batch EXCEPT ![w] = @ \o r.tweets]
         /\ hist' = [hist EXCEPT
              ![w].stream = @ \o r.stream,
              ![w].batchsrc = @ \o SelectKept([j \in DOMAIN r.stream |-> n + j],
                                              [j \in DOMAIN r.stream |-> r.stream[j].kept])]
  /\ pos' = [pos EXCEPT ![w] = @ + 1]
  /\ UNCHANGED << cli, fx, input, shared, batch_size, pc, df, first_batch, outfile >>

\* the chunk is complete (batch_size parsed lines, or end of file):
\* converter.process builds the table of the batch
Convert(w) ==
  /\ pc[w] = "read"
  /\ chunk[w] > 0
  /\ chunk[w] = batch_size[w] \/ pos[w] = Len(input)
  /\ \E r \in {ProcessBatch(tweet_batch[w], conv[ConvOf(w)])} :
         /\ conv' = [conv EXCEPT ![ConvOf(w)].counts = r.counts]
         /\ df' = [df EXCEPT ![w] = r.df]
         /\ hist' = [hist EXCEPT ![w].batches =
               Append(@, [n |-> Len(tweet_batch[w]),
                          discarded |-> Len(r.df.rows) # Len(tweet_batch[w]),
                          header |-> FALSE, written |-> FALSE])]
  /\ pc' = [pc EXCEPT ![w] = "write"]
  /\ UNCHANGED << cli, fx, input, shared, batch_size, pos, chunk, tweet_batch,
                  first_batch, outfile >>

\* a writer that counts the batches written
RowsAfter_CountsBatches(rows, frame) == rows + 1

\* self.converter.counts["rows"] += len(_df)
RowsAfter(rows, frame) == rows + Len(frame.rows)

\* _write_output(df, first_batch); first_batch = False
WriteOutput(w) ==
  /\ pc[w] = "write"
  /\ LET cv == conv[ConvOf(w)]
         mh == ModeHeader(first_batch[w])
         b == Len(hist[w].batches)
     IN  /\ conv' = [conv EXCEPT ![ConvOf(w)].counts.rows = RowsAfter(@, df[w])]
         /\ IF CsvKeyError(df[w], cv.output_columns)
            THEN /\ pc' = [pc EXCEPT ![w] = "error"]
                 /\ UNCHANGED << outfile, first_batch, chunk, tweet_batch, df, hist >>
            ELSE /\ outfile' = [outfile EXCEPT ![w] =
                       ToCsv(@, df[w], mh.mode, cv.output_columns, mh.header)]
                 /\ first_batch' = [first_batch EXCEPT ![w] = FALSE]
                 /\ chunk' = [chunk EXCEPT ![w] = 0]
                 /\ tweet_batch' = [tweet_batch EXCEPT ![w] = <<>>]
                 /\ df' = [df EXCEPT ![w] = NoFrame]
                 /\ hist' = [hist EXCEPT
                      ![w].batches[b].header = mh.header,
                      ![w].batches[b].written = TRUE,
                      ![w].batchsrc = <<>>,
                      ![w].rowsrc = @ \o (IF Len(df[w].rows) = Len(hist[w].batchsrc)
                                          THEN hist[w].batchsrc ELSE <<>>)]
                 /\ pc' = [pc EXCEPT ![w] = "read"]
  /\ UNCHANGED << cli, fx, input, shared, batch_size, pos >>

\* the input is exhausted: self.progress.close(), process() returns
Close(w) ==
  /\ pc[w] = "read"
  /\ chunk[w] = 0
  /\ pos[w] = Len(input)
  /\ pc' = [pc EXCEPT ![w] = "done"]
  /\ hist' = [hist EXCEPT ![w].final = conv[ConvOf(w)].counts]
  /\ UNCHANGED << cli, fx, input, shared, batch_size, conv, pos, chunk, tweet_batch, df,
                  first_batch, outfile >>

Run(w) ==
  \/ StartProcess(w)
  \/ ReadLine(w)
  \/ Convert(w)
  \/ WriteOutput(w)
  \/ Close(w)

Next == Run(1)

NextTwoRuns == \E w \in W : Run(w)

Spec == Init /\ [][Next]_vars

SpecTwoRuns == InitTwoRuns /\ [][NextTwoRuns]_vars

\* process() is one thread of control: it keeps taking its next step
SpecLive == Spec /\ WF_vars(Next)

(***************************************************************************)
(* The csv command of twarc_csv.py.  It checks its two file arguments and  *)
(* then builds a CSVConverter and calls process(), which is the loop of    *)
(* csv_writer.py (twarc_csv.py:361-372).  The command tells files apart by *)
(* their names; outfile is click.File("w"), which click opens at the first *)
(* write.                                                                  *)
(***************************************************************************)
InNames == {"in.jsonl", "<stdin>"}
OutNames == {"in.jsonl", "out.csv", "<stdout>"}

\* the options tried: the defaults of the command, and an output column
\* that is not an input column
CliArgChoices ==
  { [DefaultArgs EXCEPT !.inline_referenced_tweets = TRUE,
                        !.output_columns = oc] :
      oc \in { <<>>, <<"id", "nope">> } }

\* infile.name == outfile.name
SameFile == cli.infile = cli.outfile
\* infile.name == "<stdin>" or outfile.name == "<stdout>"
Piped == cli.infile = "<stdin>" \/ cli.outfile = "<stdout>"

\* a command that never looks at the size of the input
RefusesEmpty_Never == FALSE

\* not (stdin or stdout) and os.stat(infile.name).st_size == 0
RefusesEmpty == ~Piped /\ Len(input) = 0

\* the output file exists: click has opened it for a write
Created(w) == \E b \in DOMAIN hist[w].batches : hist[w].batches[b].written

InitCli ==
  /\ cli \in [infile : InNames, outfile : OutNames]
  /\ fx = NoFx
  /\ shared = FALSE
  /\ \E b \in 1..MaxBatch : batch_size = <<b, 1>>
  /\ input \in Inputs
  /\ \E a \in CliArgChoices :
       conv = (0 :> DataFrameConverter(DefaultArgs))
              @@ (1 :> DataFrameConverter(a)) @@ (2 :> DataFrameConverter(a))
  /\ pc = [w \in W |-> IF w = 1 THEN "cli" ELSE "new"]
  /\ pos = [w \in W |-> 0]
  /\ chunk = [w \in W |-> 0]
  /\ tweet_batch = [w \in W |-> <<>>]
  /\ df = [w \in W |-> NoFrame]
  /\ first_batch = [w \in W |-> FALSE]
  /\ outfile = [w \in W |-> <<>>]
  /\ hist = [w \in W |-> [stream |-> <<>>, batchsrc |-> <<>>, rowsrc |-> <<>>,
                          batches |-> <<>>, final |-> <<>>]]

\* csv(): the two checks, then the converter is built
Csv(w) ==
  /\ pc[w] = "cli"
  /\ pc' = [pc EXCEPT ![w] = IF SameFile \/ RefusesEmpty THEN "refused"
                             ELSE "new"]
  /\ UNCHANGED << cli, fx, input, shared, batch_size, conv, pos, chunk,
                  tweet_batch, df, first_batch, outfile, hist >>

NextCli == Csv(1) \/ Run(1)

SpecCli == InitCli /\ [][NextCli]_vars

(***************************************************************************)
(* _inline_referenced_tweets and _format_tweet on their own: the converter *)
(* is given one flattened record, with up to MaxRefs referenced tweets.    *)
(***************************************************************************)
MaxRefs == 2   \* referenced tweets of one record

\* the record's own fields: bare, with every merged field, and with an
\* empty entities object and the user it replies to
OwnBase ==
  ("id" :> Str(<<"5">>)) @@ ("author_id" :> Str(<<"7">>))
  @@ ("created_at" :> Str(<<"t">>)) @@ ("__twarc" :> Twarc)
OwnFull ==
  OwnBase @@ ("text" :> Str(<<"RT">>))
  @@ ("entities" :> Dict("urls" :> Str(<<"o">>)))
  @@ ("attachments" :> Dict("media_keys" :> Str(<<"o">>)))
  @@ ("public_metrics" :> Dict("like_count" :> Num(0)))
OwnPartial ==
  OwnBase @@ ("text" :> Str(<<"RT">>)) @@ ("entities" :> Dict(EmptyDict))
  @@ ("in_reply_to_user" :> Dict("id" :> Str(<<"4">>)))
  @@ ("in_reply_to_user_id" :> Str(<<"4">>))
OwnChoices == {OwnBase, OwnFull, OwnPartial}

\* referenced tweets: a retweeted tweet with every merged field, one with
\* its text only, one the API did not expand, and a quoted tweet
RtFull ==
  ("type" :> Str(<<"retweeted">>)) @@ ("id" :> Str(<<"1">>))
  @@ ("author_id" :> Str(<<"9">>)) @@ ("text" :> Str(<<"r">>))
  @@ ("entities" :> Dict("urls" :> Str(<<"r">>)))
  @@ ("attachments" :> Dict("media_keys" :> Str(<<"r">>)))
  @@ ("public_metrics" :> Dict("like_count" :> Num(3)))
RtPartial ==
  ("type" :> Str(<<"retweeted">>)) @@ ("id" :> Str(<<"2">>))
  @@ ("author_id" :> Str(<<"8">>)) @@ ("text" :> Str(<<"p">>))
RtStub == ("type" :> Str(<<"retweeted">>)) @@ ("id" :> Str(<<"3">>))
QtFull ==
  ("type" :> Str(<<"quoted">>)) @@ ("id" :> Str(<<"1">>))
  @@ ("author_id" :> Str(<<"9">>)) @@ ("text" :> Str(<<"q">>))
  @@ ("entities" :> Dict("urls" :> Str(<<"q">>)))
  @@ ("attachments" :> Dict("media_keys" :> Str(<<"q">>)))
  @@ ("public_metrics" :> Dict("like_count" :> Num(4)))
RefChoices == {Dict(RtFull), Dict(RtPartial), Dict(RtStub), Dict(QtFull),
               Dict(RefStub3)}

\* the records given to the expander: without the field, or with a list of
\* 0..MaxRefs referenced tweets
FormatInputs ==
  OwnChoices
  \cup { Put(own, "referenced_tweets", List(refs)) :
           own \in OwnChoices,
           refs \in UNION {[1..n -> RefChoices] : n \in 0..MaxRefs} }

FormatArgChoices ==
  { [DefaultArgs EXCEPT !.inline_referenced_tweets = inl,
                        !.merge_retweets = mrg] :
      inl \in BOOLEAN, mrg \in BOOLEAN }

\* a fresh converter and the record it is about to be given
InitFormat ==
  /\ cli = NoCli
  /\ \E t \in FormatInputs : fx = [fn |-> "", arg |-> t, res |-> <<>>]
  /\ shared = FALSE
  /\ batch_size = <<1, 1>>
  /\ input = <<>>
  /\ \E a \in FormatArgChoices :
       conv = (0 :> DataFrameConverter(DefaultArgs))
              @@ (1 :> DataFrameConverter(a)) @@ (2 :> DataFrameConverter(a))
  /\ pc = [w \in W |-> IF w = 1 THEN "call" ELSE "new"]
  /\ pos = [w \in W |-> 0]
  /\ chunk = [w \in W |-> 0]
  /\ tweet_batch = [w \in W |-> <<>>]
  /\ df = [w \in W |-> NoFrame]
  /\ first_batch = [w \in W |-> FALSE]
  /\ outfile = [w \in W |-> <<>>]
  /\ hist = [w \in W |-> [stream |-> <<>>, batchsrc |-> <<>>, rowsrc |-> <<>>,
                          batches |-> <<>>, final |-> <<>>]]

\* list(self._inline_referenced_tweets(tweet))
ExpandReferences(w) ==
  /\ pc[w] = "call"
  /\ \E r \in {InlineReferencedTweets(fx.arg, conv[ConvOf(w)])} :
       /\ fx' = [fx EXCEPT !.fn = "_inline_referenced_tweets", !.res = r.out]
       /\ conv' = [conv EXCEPT ![ConvOf(w)].counts = r.counts]
  /\ pc' = [pc EXCEPT ![w] = "returned"]
  /\ UNCHANGED << cli, input, shared, batch_size, pos, chunk, tweet_batch, df,
                  first_batch, outfile, hist >>

NextFormat == ExpandReferences(1)

SpecFormat == InitFormat /\ [][NextFormat]_vars

(***************************************************************************)
(* _process_dataframe on its own: a table of one cell goes through the     *)
(* transforms of a converter, up to MaxCalls times in a row.               *)
(***************************************************************************)
MaxChunks == 3   \* chunks of a string cell
MaxCalls == 2    \* calls of _process_dataframe on the same table

CellChunks == {"a", CR, LF, "\\"}
StringCells == { Str(s) : s \in UNION {[1..n -> CellChunks] : n \in 0..MaxChunks} }
ListCells == { List(<<>>), List(<<Str(<<"a">>)>>), List(<<Str(<<LF>>), Num(5)>>) }
ScalarCells == { Num(5), Num(0) }
EmptyCells == { NaN, None }
CellChoices == StringCells \cup ListCells \cup ScalarCells \cup EmptyCells

CellArgChoices ==
  { [DefaultArgs EXCEPT !.json_encode_all = all, !.json_encode_text = text,
                        !.json_encode_lists = lists] :
      all \in BOOLEAN, text \in BOOLEAN, lists \in BOOLEAN }

\* the table of one row and one column that holds the cell
CellFrame(x) == [columns |-> <<"text">>, rows |-> <<("text" :> x)>>]
CellOf(frame) == frame.rows[1]["text"]

InitCells ==
  /\ cli = NoCli
  /\ \E x \in CellChoices : fx = [fn |-> "", arg |-> x, res |-> <<>>]
  /\ shared = FALSE
  /\ batch_size = <<1, 1>>
  /\ input = <<>>
  /\ \E a \in CellArgChoices :
       conv = (0 :> DataFrameConverter(DefaultArgs))
              @@ (1 :> DataFrameConverter(a)) @@ (2 :> DataFrameConverter(a))
  /\ pc = [w \in W |-> IF w = 1 THEN "cell" ELSE "new"]
  /\ pos = [w \in W |-> 0]
  /\ chunk = [w \in W |-> 0]
  /\ tweet_batch = [w \in W |-> <<>>]
  /\ df = [w \in W |-> NoFrame]
  /\ first_batch = [w \in W |-> FALSE]
  /\ outfile = [w \in W |-> <<>>]
  /\ hist = [w \in W |-> [stream |-> <<>>, batchsrc |-> <<>>, rowsrc |-> <<>>,
                          batches |-> <<>>, final |-> <<>>]]

\* _df = self._process_dataframe(_df), on the table the last call returned
TransformCells(w) ==
  /\ pc[w] = "cell"
  /\ Len(fx.res) < MaxCalls
  /\ \E x \in {IF fx.res = <<>> THEN fx.arg ELSE fx.res[Len(fx.res)]} :
       fx' = [fx EXCEPT
                !.fn = "_process_dataframe",
                !.res = Append(@, CellOf(ProcessDataframe(CellFrame(x),
                                                          conv[ConvOf(w)])))]
  /\ UNCHANGED << cli, input, shared, batch_size, conv, pc, pos, chunk,
                  tweet_batch, df, first_batch, outfile, hist >>

NextCells == TransformCells(1)

SpecCells == InitCells /\ [][NextCells]_vars

(***************************************************************************)
(* Observations used by the properties.                                    *)
(***************************************************************************)
\* the data lines of the output file of w, without the header lines
RowLines(w) == SelectSeq(outfile[w], LAMBDA l : ~l.h)
HeaderLines(w) == SelectSeq(outfile[w], LAMBDA l : l.h)
\* the position of a column in the output columns of w, 0 when absent
ColumnAt(w, c) ==
  LET oc == conv[ConvOf(w)].output_columns
  IN  IF c \in Range(oc) THEN CHOOSE i \in DOMAIN oc : oc[i] = c ELSE 0
Dedups(w) ==
  /\ ~conv[ConvOf(w)].allow_duplicates
  /\ conv[ConvOf(w)].input_data_type = "tweets"

(***************************************************************************)
(* C1: with allow_duplicates=false and an identity-bearing input type, the *)
(* rows written during one run hold at most one row per distinct id, and   *)
(* the row of an id comes from the first record with that id in the record *)
(* stream of the run (input order, after reference expansion), whatever    *)
(* the batch boundaries are.                                               *)
(***************************************************************************)
C1_OneRowPerIdFirstOccurrence ==
  \A w \in W :
    Dedups(w) =>
      LET s == hist[w].stream
          r == hist[w].rowsrc
          rows == RowLines(w)
          idc == ColumnAt(w, "id")
      IN  /\ Len(rows) = Len(r)
          /\ \A i, j \in DOMAIN r : i # j => s[r[i]].id # s[r[j]].id
          /\ \A i \in DOMAIN r : \A k \in 1..(r[i] - 1) : s[k].id # s[r[i]].id
          /\ idc # 0 =>
               \A i, j \in DOMAIN rows : i # j => rows[i].cells[idc] # rows[j].cells[idc]

\* an id came twice, in two batches, and the first record has the only row
C1_Witness ==
  \E w \in W :
    /\ Dedups(w) /\ pc[w] = "done" /\ batch_size[w] = 1
    /\ \E k1, k2 \in DOMAIN hist[w].stream :
         /\ k1 < k2
         /\ hist[w].stream[k1].id = hist[w].stream[k2].id
         /\ hist[w].stream[k1].line < hist[w].stream[k2].line
         /\ k1 \in Range(hist[w].rowsrc)
         /\ k2 \notin Range(hist[w].rowsrc)

\* no batch of the run of w was discarded by the schema check
NoDiscard(w) ==
  \A b \in DOMAIN hist[w].batches : ~hist[w].batches[b].discarded
\* the two writers have converters of their own and both runs returned
BothDone == ~shared /\ pc[1] = "done" /\ pc[2] = "done"

C3_HeaderByFirstKeptBatch ==
  \A w \in W :
    LET bs == hist[w].batches
    IN  /\ \A b \in DOMAIN bs :
             bs[b].written =>
               (bs[b].header <=>
                  /\ ~bs[b].discarded
                  /\ \A c \in 1..(b - 1) : bs[c].discarded)
        /\ pc[w] = "done" => Len(HeaderLines(w)) = 1

(***************************************************************************)
(* C3, amended: in a run that forms at least one batch exactly one header  *)
(* line is written; the first batch writes it, whether or not the schema   *)
(* check discarded that batch, and it is the first line of the             *)
(* destination; every later batch writes rows only.  A run that forms no   *)
(* batch writes nothing.                                                   *)
(***************************************************************************)
C3_HeaderByFirstBatch ==
  \A w \in W :
    LET bs == hist[w].batches
    IN  /\ \A b \in DOMAIN bs : bs[b].written => (bs[b].header <=> b = 1)
        /\ Len(HeaderLines(w)) =
             IF \E b \in DOMAIN bs : bs[b].written THEN 1 ELSE 0
        /\ outfile[w] # <<>> => outfile[w][1].h
        /\ (pc[w] = "done" /\ bs = <<>>) => outfile[w] = <<>>

\* the first batch was discarded and wrote the header; the second wrote a row
C3_Witness ==
  \E w \in W :
    /\ pc[w] = "done"
    /\ Len(hist[w].batches) = 2
    /\ hist[w].batches[1].discarded /\ hist[w].batches[1].header
    /\ ~hist[w].batches[2].discarded /\ ~hist[w].batches[2].header
    /\ Len(outfile[w]) = 2 /\ outfile[w][1].h /\ ~outfile[w][2].h

\* the schema check fails for the records of the current batch of w
Drift(w) ==
  Diff(JsonNormalize(tweet_batch[w]), conv[ConvOf(w)].columns) # {}

(***************************************************************************)
(* C4: when the records of a batch have a column outside the declared      *)
(* input columns, converter.process returns a table without rows and adds  *)
(* the number of records of the batch to parse_errors; writing that batch  *)
(* adds no row line to the destination and leaves the rows counter as it   *)
(* was.                                                                    *)
(***************************************************************************)
C4_DriftDiscardsTheBatch ==
  [][ \A w \in W :
        Drift(w) =>
          LET c == conv[ConvOf(w)].counts
              d == conv'[ConvOf(w)].counts
          IN  /\ (pc[w] = "read" /\ pc'[w] = "write") =>
                   /\ df'[w].rows = <<>>
                   /\ d.parse_errors = c.parse_errors + Len(tweet_batch[w])
                   /\ d.rows = c.rows
              /\ pc[w] = "write" =>
                   /\ d.rows = c.rows
                   /\ d.parse_errors = c.parse_errors
                   /\ SelectSeq(outfile'[w], LAMBDA l : ~l.h) = RowLines(w) ]_vars

\* a batch of two records was discarded and written; an earlier batch has a row
C4_Witness ==
  \E w \in W :
    /\ pc[w] = "done"
    /\ Len(hist[w].batches) = 2
    /\ ~hist[w].batches[1].discarded
    /\ hist[w].batches[2].discarded /\ hist[w].batches[2].n = 2
    /\ hist[w].batches[2].written
    /\ hist[w].final.parse_errors = 2
    /\ hist[w].final.rows = Len(RowLines(w)) /\ hist[w].final.rows = 1

\* the lines among the first n that fail to parse, and those that parse
BadRead(n) == {i \in 1..n : input[i].k = "bad"}
JsonRead(n) == {i \in 1..n : input[i].k = "json"}
\* the records of the batches the schema check has discarded
RECURSIVE SumDiscarded(_)
SumDiscarded(bs) ==
  IF bs = <<>> THEN 0
  ELSE (IF bs[1].discarded THEN bs[1].n ELSE 0) + SumDiscarded(Tail(bs))
DiscardedRecords(w) == SumDiscarded(hist[w].batches)

(***************************************************************************)
(* C5: the reader goes on after a bad line.  In a run with a converter of  *)
(* its own, at every moment: the lines counter is the number of lines      *)
(* read; the reader has added one to parse_errors for each line read that  *)
(* is not blank and fails to parse, and nothing for a blank line (the      *)
(* rest of parse_errors are the records of discarded batches); the parsed  *)
(* lines read so far have all been yielded, in input order.  At the end    *)
(* every line was read, and the input "unparseable line, valid tweet"      *)
(* ends with lines 2, parse_errors 1, rows 1.                              *)
(***************************************************************************)
C5_ReaderSkipsBadLines ==
  \A w \in W :
    ~shared =>
      LET c == conv[w].counts
          s == hist[w].stream
      IN  /\ c.lines = pos[w]
          /\ c.parse_errors = Cardinality(BadRead(pos[w])) + DiscardedRecords(w)
          /\ {s[k].line : k \in DOMAIN s} = JsonRead(pos[w])
          /\ \A k, l \in DOMAIN s : k < l => s[k].line <= s[l].line
          /\ pc[w] = "done" =>
               /\ c.lines = Len(input)
               /\ (/\ input = <<BadLine, JsonLine(<<Tweet1>>)>>
                   /\ conv[w].input_data_type = "tweets") =>
                    /\ c.lines = 2 /\ c.parse_errors = 1 /\ c.rows = 1
                    /\ Len(RowLines(w)) = 1

\* the run over an unparseable line followed by a valid tweet has returned
C5_Witness ==
  \E w \in W :
    /\ ~shared /\ pc[w] = "done"
    /\ input = <<BadLine, JsonLine(<<Tweet1>>)>>
    /\ conv[w].input_data_type = "tweets"
    /\ hist[w].final.lines = 2 /\ hist[w].final.parse_errors = 1
    /\ hist[w].final.rows = 1
    /\ hist[w].stream # <<>> /\ hist[w].stream[1].line = 2

\* every declared output column is a declared input column
ValidConfig(w) ==
  Range(conv[ConvOf(w)].output_columns) \subseteq Range(conv[ConvOf(w)].columns)
\* the chunks ichunked cuts from n parsed lines
Chunks(n, size) == (n + size - 1) \div size

(***************************************************************************)
(* C6: no problem of a record or of a batch aborts a run.  With output     *)
(* columns that are all declared input columns, whatever the input holds   *)
(* (unparseable and blank lines, records without id, batches with          *)
(* undeclared columns, stub references): process() never reaches an error  *)
(* state, and it does return; when it returns every input line has been    *)
(* read, the parsed lines were cut into batches of batch_size, each batch  *)
(* was written once, and the problems are in the counters.                 *)
(***************************************************************************)
C6_NoProblemAbortsTheRun ==
  /\ [](ValidConfig(1) =>
          /\ pc[1] # "error"
          /\ pc[1] = "done" =>
               /\ pos[1] = Len(input)
               /\ chunk[1] = 0 /\ tweet_batch[1] = <<>>
               /\ Len(hist[1].batches) =
                    Chunks(Cardinality(JsonRead(Len(input))), batch_size[1])
               /\ \A b \in DOMAIN hist[1].batches : hist[1].batches[b].written
               /\ hist[1].final.lines = Len(input)
               /\ hist[1].final.parse_errors =
                    Cardinality(BadRead(Len(input))) + DiscardedRecords(1))
  /\ (ValidConfig(1) ~> pc[1] = "done")

\* a run over an unparseable line and a batch with an undeclared column returned
C6_Witness ==
  /\ ValidConfig(1) /\ pc[1] = "done"
  /\ BadRead(Len(input)) # {}
  /\ \E b \in DOMAIN hist[1].batches :
       hist[1].batches[b].discarded /\ hist[1].batches[b].written
  /\ hist[1].final.parse_errors = 2
  /\ hist[1].final.rows = 0

\* the embedded references of an input record
RefsOfRec(rec) ==
  IF "referenced_tweets" \in DOMAIN rec THEN rec["referenced_tweets"].v ELSE <<>>
\* a reference with nothing beyond its pointer fields
IsStubRef(r) == DOMAIN r.v \subseteq {"type", "id"}
FullRefs(rec) == SelectSeq(RefsOfRec(rec), LAMBDA r : ~IsStubRef(r))
RefTypes == {"replied_to", "retweeted", "quoted"}
\* the references (line, record, position) in the lines w has read
RefsRead(w) ==
  UNION { UNION { {<<i, j, k>> : k \in DOMAIN RefsOfRec(input[i].recs[j])} :
                  j \in DOMAIN input[i].recs } :
          i \in JsonRead(pos[w]) }
StubsRead(w) ==
  {t \in RefsRead(w) : IsStubRef(RefsOfRec(input[t[1]].recs[t[2]])[t[3]])}
\* what the expander yielded for record j of line i
Group(w, i, j) ==
  SelectSeq(hist[w].stream, LAMBDA e : e.line = i /\ e.rec = j)
\* the input record a yielded record belongs to
RecordOf(e) == input[e.line].recs[e.rec]
\* the row of the k-th yielded record, 0 when it has none
RowOf(w, k) ==
  IF k \in Range(hist[w].rowsrc)
  THEN CHOOSE i \in DOMAIN hist[w].rowsrc : hist[w].rowsrc[i] = k
  ELSE 0
\* the cell of a parent's row for the references of one type
PointerCell(rec, type) ==
  LET rs == SelectSeq(RefsOfRec(rec), LAMBDA r : r.v["type"] = Str(<<type>>))
  IN  IF rs = <<>> THEN NaN ELSE rs[1].v["id"]
\* writer w has a converter of its own that expands references
Inlines(w) == ~shared /\ conv[w].inline_referenced_tweets

(***************************************************************************)
(* C7, as stated: with inline_referenced_tweets enabled every reference    *)
(* with a field beyond its pointer fields has a row of its own, before the *)
(* row of its parent.  Stated for the parents that have a row, and taking  *)
(* any earlier row with the id of the reference for the row of the         *)
(* reference.                                                              *)
(***************************************************************************)
C7_EveryFullReferenceHasARow ==
  \A w \in W :
    (Inlines(w) /\ pc[w] = "done") =>
      LET s == hist[w].stream
          r == hist[w].rowsrc
      IN  \A k, p \in DOMAIN s :
            (/\ s[k].child /\ ~s[p].child
             /\ s[p].line = s[k].line /\ s[p].rec = s[k].rec
             /\ RowOf(w, p) # 0)
            => \E i \in 1..(RowOf(w, p) - 1) : s[r[i]].id = s[k].id

(***************************************************************************)
(* C7, amended: with inline_referenced_tweets enabled, for every record    *)
(* read the expander yields one record for each reference that has a field *)
(* beyond its pointer fields, in order, and then the parent; a stub yields *)
(* nothing and adds one to unavailable; every reference adds one to        *)
(* referenced_tweets.  A yielded reference is filtered like any record: it *)
(* has no row when its id was seen before (allow_duplicates=false) or when *)
(* the schema check discards its batch; otherwise it has a row, and that   *)
(* row precedes the row of the parent.  The parent's row holds, for each   *)
(* reference type, the id of a reference of that type and nothing else of  *)
(* the references.                                                         *)
(***************************************************************************)
C7_ReferencesExpandedThenFiltered ==
  \A w \in W :
    Inlines(w) =>
      LET s == hist[w].stream
          rows == RowLines(w)
      IN  /\ conv[w].counts.referenced_tweets = Cardinality(RefsRead(w))
          /\ conv[w].counts.unavailable = Cardinality(StubsRead(w))
          /\ \A i \in JsonRead(pos[w]) : \A j \in DOMAIN input[i].recs :
               LET full == FullRefs(input[i].recs[j])
                   g == Group(w, i, j)
               IN  /\ Len(g) = Len(full) + 1
                   /\ \A m \in DOMAIN full :
                        g[m].child /\ g[m].id = full[m].v["id"]
                   /\ ~g[Len(g)].child
                   /\ g[Len(g)].id = IdOf(input[i].recs[j])
          /\ \A k \in DOMAIN s :
               s[k].child =>
                 /\ s[k].kept \/ (/\ ~conv[w].allow_duplicates
                                  /\ \E q \in 1..(k - 1) : s[q].id = s[k].id)
                 /\ (pc[w] = "done" /\ NoDiscard(w) /\ s[k].kept) => RowOf(w, k) # 0
                 /\ \A p \in DOMAIN s :
                      (/\ ~s[p].child /\ s[p].line = s[k].line /\ s[p].rec = s[k].rec
                       /\ RowOf(w, k) # 0 /\ RowOf(w, p) # 0)
                      => RowOf(w, k) < RowOf(w, p)
          /\ Len(rows) = Len(hist[w].rowsrc)
          /\ \A i \in DOMAIN rows :
               LET e == s[hist[w].rowsrc[i]]
               IN  (~e.child /\ RefsOfRec(RecordOf(e)) # <<>>) =>
                     \A type \in RefTypes :
                       LET c == ColumnAt(w, "referenced_tweets." \o type \o ".id")
                       IN  c # 0 => rows[i].cells[c] = PointerCell(RecordOf(e), type)

\* one record with an expanded reference and a stub: two rows, child first
C7_Witness ==
  \E w \in W :
    /\ Inlines(w) /\ pc[w] = "done"
    /\ input = <<JsonLine(<<Quote2>>)>>
    /\ hist[w].rowsrc = <<1, 2>>
    /\ hist[w].stream[1].child /\ ~hist[w].stream[2].child
    /\ Len(RowLines(w)) = 2
    /\ hist[w].final.referenced_tweets = 2
    /\ hist[w].final.unavailable = 1
    /\ hist[w].final.rows = 2
    /\ ColumnAt(w, "referenced_tweets.quoted.id") # 0

\* two yielded records come from the same input record
SameRecord(e, f) == e.line = f.line /\ e.rec = f.rec
\* the input record of e comes before the input record of f
Before(e, f) == e.line < f.line \/ (e.line = f.line /\ e.rec < f.rec)

(***************************************************************************)
(* C8: the written rows are in the order of the input.  The row lines of   *)
(* the destination are, in order, the rows of an increasing selection of   *)
(* the yielded records, each kept by the filter; the yielded records are   *)
(* in the order of the input records, the references of a parent directly  *)
(* before it.  So of two rows from different input records the one from    *)
(* the earlier record is first, the rows of the references of a parent are *)
(* directly before the parent's row, and filtering removes rows without    *)
(* reordering those that remain.                                           *)
(***************************************************************************)
C8_RowsInInputOrder ==
  \A w \in W :
    LET s == hist[w].stream
        r == hist[w].rowsrc
        rows == RowLines(w)
        idc == ColumnAt(w, "id")
    IN  /\ Len(rows) = Len(r)
        /\ \A i \in DOMAIN r : s[r[i]].kept
        /\ idc # 0 => \A i \in DOMAIN r : rows[i].cells[idc] = s[r[i]].id
        /\ \A i, j \in DOMAIN r : i < j => r[i] < r[j]
        /\ \A k, l \in DOMAIN s :
             k < l => (Before(s[k], s[l]) \/ (SameRecord(s[k], s[l]) /\ s[k].child))
        /\ \A i, j \in DOMAIN r :
             (i < j /\ ~SameRecord(s[r[i]], s[r[j]])) => Before(s[r[i]], s[r[j]])
        /\ \A i, j \in DOMAIN r :
             (i < j /\ s[r[i]].child /\ SameRecord(s[r[i]], s[r[j]])) =>
               \A m \in i..j : SameRecord(s[r[i]], s[r[m]])

\* rows of two batches from two input lines; the record between them was
\* removed as a duplicate
C8_Witness ==
  \E w \in W :
    /\ pc[w] = "done" /\ batch_size[w] = 1
    /\ Len(hist[w].batches) = 2
    /\ hist[w].rowsrc = <<1, 3>>
    /\ ~hist[w].stream[2].kept
    /\ hist[w].stream[3].line = 2
    /\ Len(RowLines(w)) = 2
    /\ ColumnAt(w, "id") # 0

(***************************************************************************)
(* C9: two runs of the conversion over the same input with the same        *)
(* configuration and the same batch_size, one after the other in one       *)
(* process, write the same lines and end with the same counters; also when *)
(* both writers are constructed without a converter argument.              *)
(***************************************************************************)
C9_SecondRunRepeatsTheFirst ==
  (pc[1] = "done" /\ pc[2] = "done" /\ batch_size[1] = batch_size[2]) =>
    /\ outfile[1] = outfile[2]
    /\ hist[1].final = hist[2].final

(***************************************************************************)
(* C10: every chunk written to the destination has the declared output     *)
(* columns in the declared order.  At every write: the table handed to the *)
(* writer has the declared input columns, whether the batch is normal, was *)
(* emptied by the schema check or had every record filtered out; the chunk *)
(* written is a header line for the first batch, equal to the sequence of  *)
(* the declared output columns, and one line per row of the table; every   *)
(* line has one cell per declared output column, and the cells of a row    *)
(* are the cells of the table under those columns, in that order.          *)
(***************************************************************************)
C10_WrittenColumnsAreTheOutputColumns ==
  [][ \A w \in W :
        (pc[w] = "write" /\ pc'[w] = "read") =>
          LET oc == conv[ConvOf(w)].output_columns
              new == SubSeq(outfile'[w], Len(outfile[w]) + 1, Len(outfile'[w]))
              hd == IF first_batch[w] THEN 1 ELSE 0
          IN  /\ df[w].columns = conv[ConvOf(w)].columns
              /\ Len(new) = hd + Len(df[w].rows)
              /\ \A n \in DOMAIN new :
                   /\ DOMAIN new[n].cells = DOMAIN oc
                   /\ new[n].h <=> n <= hd
                   /\ \A i \in DOMAIN oc :
                        new[n].cells[i] =
                          IF n <= hd THEN Str(<<oc[i]>>)
                          ELSE df[w].rows[n - hd][oc[i]] ]_vars

\* two output columns chosen among the input columns: a first batch emptied by
\* the schema check wrote the header, the second wrote the row of tweet 2
C10_Witness ==
  \E w \in W :
    /\ pc[w] = "done"
    /\ conv[ConvOf(w)].output_columns = <<"text", "id">>
    /\ Len(hist[w].batches) = 2
    /\ hist[w].batches[1].discarded /\ ~hist[w].batches[2].discarded
    /\ outfile[w] = << [h |-> TRUE, cells |-> <<Str(<<"text">>), Str(<<"id">>)>>],
                       [h |-> FALSE, cells |-> <<Str(<<"c">>), Str(<<"2">>)>>] >>

\* the counters of a converter that has done nothing
Untouched(w) ==
  conv[ConvOf(w)].counts =
    ZeroCounts(Len(conv[ConvOf(w)].columns), Len(conv[ConvOf(w)].output_columns))

(***************************************************************************)
(* C11, as stated: when the input is empty the run refuses to begin: the   *)
(* command returns before it builds the converter.                         *)
(***************************************************************************)
C11_EmptyInputRefused ==
  input = <<>> => pc[1] \in {"cli", "refused"}

(***************************************************************************)
(* C11, amended: when the input is empty no line is read, no counter       *)
(* changes, nothing (not even a header) is written and no output file is   *)
(* created.  The command refuses to begin when neither stdin nor stdout is *)
(* used; with stdin or stdout it skips the check, and process() is called  *)
(* and returns without a batch.                                            *)
(***************************************************************************)
C11_EmptyInputLeavesNoTrace ==
  input = <<>> =>
    /\ pos[1] = 0 /\ Untouched(1)
    /\ hist[1].batches = <<>>
    /\ outfile[1] = <<>> /\ ~Created(1)
    /\ pc[1] # "error"
    /\ ~Piped => pc[1] \in {"cli", "refused"}
    /\ (Piped /\ ~SameFile) => pc[1] # "refused"

\* the command has returned on an empty input file
C11_Witness ==
  /\ input = <<>> /\ cli = [infile |-> "in.jsonl", outfile |-> "out.csv"]
  /\ pc[1] = "refused"
  /\ ~Created(1)

(***************************************************************************)
(* C12: a configuration error is detected before the run starts: with the  *)
(* same file for input and output, or with a declared output column that   *)
(* is not a declared input column, no line is processed, no counter        *)
(* changes and nothing is written.                                         *)
(***************************************************************************)
C12_ConfigurationErrorRefused ==
  (SameFile \/ ~ValidConfig(1)) =>
    /\ pos[1] = 0 /\ Untouched(1)
    /\ outfile[1] = <<>>
    /\ pc[1] # "error"

\* the yielded records of the run of w that carry an id, and those without
WithId(w) == {k \in DOMAIN hist[w].stream : hist[w].stream[k].id # None}
WithoutId(w) == {k \in DOMAIN hist[w].stream : hist[w].stream[k].id = None}
\* the k-th record that reached _process_tweets is in the batch being read
\* or has a row in the output
InBatchOrOutput(w, k) == k \in Range(hist[w].batchsrc) \/ RowOf(w, k) # 0

(***************************************************************************)
(* C13: a record without an id field is never added to the seen-identity   *)
(* set and never counted as a duplicate.  In a run with a converter of its *)
(* own, at every moment: the seen-identity set holds exactly the ids of    *)
(* the records read that carry one, and duplicates counts only such        *)
(* records; when input_data_type is counts every record without id was     *)
(* yielded to the batch and added one to tweets, and non_objects is 0;     *)
(* for every other type no record without id was yielded, non_objects is   *)
(* their number and tweets counts only the records with an id.  After the  *)
(* run, with no batch discarded, every record without id of a counts run   *)
(* has its row and none of another run has.                                *)
(***************************************************************************)
C13_RecordsWithoutId ==
  LET s == hist[1].stream
      c == conv[ConvOf(1)].counts
      passes == conv[ConvOf(1)].input_data_type = "counts"
  IN  /\ conv[ConvOf(1)].dataset_ids = {s[k].id : k \in WithId(1)}
      /\ c.duplicates = Cardinality(WithId(1)) - Cardinality(conv[ConvOf(1)].dataset_ids)
      /\ \A k \in WithoutId(1) : s[k].kept = passes
      /\ c.tweets = Cardinality(WithId(1))
                    + (IF passes THEN Cardinality(WithoutId(1)) ELSE 0)
      /\ c.non_objects = (IF passes THEN 0 ELSE Cardinality(WithoutId(1)))
      /\ \A k \in WithoutId(1) : ~passes => ~InBatchOrOutput(1, k)
      /\ \A k \in WithoutId(1) :
           (passes /\ pc[1] \in {"read", "write"}) =>
              (InBatchOrOutput(1, k) \/ ~NoDiscard(1))
      /\ \A k \in WithoutId(1) :
           (passes /\ pc[1] = "done" /\ NoDiscard(1)) => RowOf(1, k) # 0

\* a counts run wrote the row of a record without id and counted it in tweets
C13_Witness ==
  /\ conv[ConvOf(1)].input_data_type = "counts"
  /\ pc[1] = "done"
  /\ \E k \in WithoutId(1) : RowOf(1, k) # 0
  /\ hist[1].final.tweets = Cardinality(WithoutId(1))
  /\ hist[1].final.rows > 0
  /\ conv[ConvOf(1)].dataset_ids = {}

\* the run of w is between two batches, or has returned
AfterBatch(w) == (pc[w] = "read" /\ chunk[w] = 0) \/ pc[w] = "done"
\* the records that reached _process_tweets all carry an id, no two the same
DistinctIds(w) ==
  /\ WithoutId(w) = {}
  /\ \A j, k \in DOMAIN hist[w].stream :
       hist[w].stream[j].id = hist[w].stream[k].id => j = k

(***************************************************************************)
(* C14: the counters balance.  With allow_duplicates=false, an             *)
(* identity-bearing input type and a converter of its own (so that the     *)
(* seen-identity set is empty when the run starts), tweets - duplicates is *)
(* the size of the seen-identity set, and after every batch rows plus the  *)
(* records of the batches discarded by the schema check is                 *)
(* tweets - duplicates.  So when the run has returned, the N records read  *)
(* all carry an id, no two the same, and no batch was discarded: rows is   *)
(* N, N rows were written and duplicates is 0.                             *)
(***************************************************************************)
C14_CountersBalance ==
  LET c == conv[ConvOf(1)].counts
  IN  Dedups(1) =>
        /\ c.tweets - c.duplicates = Cardinality(conv[ConvOf(1)].dataset_ids)
        /\ AfterBatch(1) =>
             c.rows + DiscardedRecords(1) = c.tweets - c.duplicates
        /\ (pc[1] = "done" /\ DistinctIds(1) /\ NoDiscard(1)) =>
             /\ c.rows = Len(hist[1].stream)
             /\ Len(RowLines(1)) = Len(hist[1].stream)
             /\ c.duplicates = 0

\* the scenario: two distinct tweets in one batch, two rows and a header
C14_Witness ==
  /\ Dedups(1) /\ pc[1] = "done"
  /\ input = <<JsonLine(<<Tweet2, Tweet1>>)>>
  /\ conv[ConvOf(1)].counts.rows = 2
  /\ conv[ConvOf(1)].counts.duplicates = 0
  /\ Len(RowLines(1)) = 2 /\ Len(HeaderLines(1)) = 1

\* the expander has returned for a record, with expansion disabled / enabled
Returned == pc[1] = "returned"
ExpansionOff == ~conv[ConvOf(1)].inline_referenced_tweets
\* the referenced tweets of the record given, as dicts
RefsGiven ==
  IF "referenced_tweets" \in DOMAIN fx.arg
  THEN [i \in DOMAIN fx.arg["referenced_tweets"].v |->
          fx.arg["referenced_tweets"].v[i].v]
  ELSE <<>>
TypeOf(ref) == Join(ref["type"].v)
\* the last referenced tweet of a type, when there is one
HasType(type) == \E i \in DOMAIN RefsGiven : TypeOf(RefsGiven[i]) = type
LastGiven(type) ==
  RefsGiven[CHOOSE i \in DOMAIN RefsGiven :
              /\ TypeOf(RefsGiven[i]) = type
              /\ \A j \in DOMAIN RefsGiven : TypeOf(RefsGiven[j]) = type => j <= i]
\* the record yielded for the record given: the last one yielded
Formatted == fx.res[Len(fx.res)]
\* the fields _format_tweet may remove, replace or add
Reformatted ==
  {"referenced_tweets", "pinned_tweet", "in_reply_to_user", "type",
   "retweeted_user_id", "quoted_user_id"}
  \cup Range(EmptyObjects)
  \cup (IF conv[ConvOf(1)].merge_retweets /\ HasType("retweeted")
        THEN Range(MergedFields) ELSE {})

(***************************************************************************)
(* C15, as stated: with inline_referenced_tweets disabled the expander     *)
(* yields exactly the record it was given, fields and values unchanged,    *)
(* and referenced_tweets and unavailable do not change.                    *)
(***************************************************************************)
C15_DisabledExpanderPassesThrough ==
  (Returned /\ ExpansionOff) =>
    /\ fx.res = <<fx.arg>>
    /\ conv[ConvOf(1)].counts.referenced_tweets = 0
    /\ conv[ConvOf(1)].counts.unavailable = 0

(***************************************************************************)
(* C15, amended: with inline_referenced_tweets disabled the expander       *)
(* yields exactly one record per record given and referenced_tweets and    *)
(* unavailable do not change, but the record yielded is the formatted      *)
(* record: its referenced_tweets field is a dict from each reference type  *)
(* to the id of the first reference of that type (empty when the record    *)
(* has no references), pinned_tweet, in_reply_to_user and type are gone,   *)
(* and every field outside those _format_tweet rewrites keeps its value.   *)
(***************************************************************************)
C15_DisabledExpanderFormats ==
  (Returned /\ ExpansionOff) =>
    LET r == Formatted
        p == r["referenced_tweets"]
    IN  /\ Len(fx.res) = 1
        /\ conv[ConvOf(1)].counts.referenced_tweets = 0
        /\ conv[ConvOf(1)].counts.unavailable = 0
        /\ "referenced_tweets" \in DOMAIN r
        /\ p.t = "dict"
        /\ DOMAIN p.v = {TypeOf(RefsGiven[i]) : i \in DOMAIN RefsGiven}
        /\ \A ty \in DOMAIN p.v :
             /\ p.v[ty].t = "dict"
             /\ DOMAIN p.v[ty].v = {"id"}
             /\ \E i \in DOMAIN RefsGiven :
                  /\ TypeOf(RefsGiven[i]) = ty
                  /\ p.v[ty].v["id"] = RefsGiven[i]["id"]
                  /\ \A j \in 1..(i - 1) : TypeOf(RefsGiven[j]) # ty
        /\ {"pinned_tweet", "in_reply_to_user", "type"} \cap DOMAIN r = {}
        /\ \A k \in DOMAIN fx.arg \ Reformatted : k \in DOMAIN r /\ r[k] = fx.arg[k]
        /\ DOMAIN r \ DOMAIN fx.arg \subseteq Reformatted

\* a record with two references went through the disabled expander: one
\* record came out, with pointers in place of the referenced tweets
C15_Witness ==
  /\ Returned /\ ExpansionOff
  /\ fx.arg = Put(OwnPartial, "referenced_tweets",
                  List(<<Dict(QtFull), Dict(RefStub3)>>))
  /\ Len(fx.res) = 1
  /\ Formatted # fx.arg
  /\ Formatted["referenced_tweets"] =
       Dict(("quoted" :> Dict("id" :> Str(<<"1">>)))
            @@ ("replied_to" :> Dict("id" :> Str(<<"3">>))))
  /\ "in_reply_to_user" \notin DOMAIN Formatted
  /\ conv[ConvOf(1)].counts.referenced_tweets = 0

\* the value a field gives its cells in the row: a missing field, None and
\* an empty object all leave the cells empty
RowValue(rec, k) == IF k \in DOMAIN rec /\ Truthy(rec[k]) THEN rec[k] ELSE None
ContentFields == {"text", "entities", "attachments", "public_metrics"}
IdentityFields == {"id", "author_id", "created_at"}

(***************************************************************************)
(* C16: with merge_retweets enabled, the record formatted for a record     *)
(* that carries a retweeted reference has the text, entities, attachments  *)
(* and public_metrics of that reference (the last one of type retweeted),  *)
(* and its own value only for a field the reference lacks; its id,         *)
(* author_id and created_at stay its own.  A record with no retweeted      *)
(* reference (none at all, or quoted and replied_to ones only) keeps its   *)
(* own content fields, and so does every record when merge_retweets is     *)
(* disabled.  This holds with reference expansion enabled and disabled.    *)
(***************************************************************************)
C16_RetweetTakesReferencedContent ==
  Returned =>
    LET r == Formatted
        merges == conv[ConvOf(1)].merge_retweets /\ HasType("retweeted")
    IN  /\ \A k \in IdentityFields : k \in DOMAIN r /\ r[k] = fx.arg[k]
        /\ merges =>
             \A k \in ContentFields :
               RowValue(r, k) = IF k \in DOMAIN LastGiven("retweeted")
                                THEN RowValue(LastGiven("retweeted"), k)
                                ELSE RowValue(fx.arg, k)
        /\ ~merges =>
             \A k \in ContentFields : RowValue(r, k) = RowValue(fx.arg, k)

\* a retweet of a tweet that has only its text: the text is the retweeted
\* tweet's, the entities, attachments and metrics are the retweet's own
C16_Witness ==
  /\ Returned
  /\ conv[ConvOf(1)].merge_retweets
  /\ fx.arg = Put(OwnFull, "referenced_tweets", List(<<Dict(RtPartial)>>))
  /\ Formatted["text"] = Str(<<"p">>)
  /\ Formatted["entities"] = OwnFull["entities"]
  /\ Formatted["public_metrics"] = OwnFull["public_metrics"]
  /\ Formatted["author_id"] = Str(<<"7">>)

\* the cell after the first call, and the flags of the converter
Transformed == Len(fx.res) >= 1
FirstResult == fx.res[1]
EncodeAll == conv[ConvOf(1)].json_encode_all
EncodeTextSet == conv[ConvOf(1)].json_encode_text
EncodeListsSet == conv[ConvOf(1)].json_encode_lists
\* what the mandatory escape makes of one chunk of a string
EscapedChunk(c) == IF c = CR THEN <<>> ELSE IF c = LF THEN <<"\\", "n">> ELSE <<c>>
Escaped(x) == Str(Concat([i \in DOMAIN x.v |-> EscapedChunk(x.v[i])]))

(***************************************************************************)
(* C17: the precedence of the cell transforms.  For a cell that is not     *)
(* empty: with json_encode_all every cell is the JSON text of its value,   *)
(* whatever the other two flags are; otherwise a string cell is its JSON   *)
(* text when json_encode_text is set and is newline-escaped when it is     *)
(* not, a list cell is its JSON text exactly when json_encode_lists is     *)
(* set, and a number is left as it is.  No cell is ever the JSON text of   *)
(* its JSON text.  An empty cell (NaN, None) is left alone.                *)
(***************************************************************************)
C17_TransformPrecedence ==
  Transformed =>
    LET x == fx.arg
        y == FirstResult
    IN  /\ IsNA(x) => y = x
        /\ ~IsNA(x) =>
             /\ EncodeAll => y = JsonDumps(x)
             /\ (~EncodeAll /\ x.t = "str") =>
                  y = IF EncodeTextSet THEN JsonDumps(x) ELSE Escaped(x)
             /\ (~EncodeAll /\ x.t = "list") =>
                  y = IF EncodeListsSet THEN JsonDumps(x) ELSE x
             /\ (~EncodeAll /\ x.t = "int") => y = x
             /\ y # JsonDumps(JsonDumps(x))

\* json_encode_text and json_encode_lists both set: a string with a newline
\* is encoded once, by the text transform
C17_Witness ==
  /\ Transformed
  /\ ~EncodeAll /\ EncodeTextSet /\ EncodeListsSet
  /\ fx.arg = Str(<<"a", LF>>)
  /\ FirstResult = Str(<<"\"", "a", "\\", "n", "\"">>)

(***************************************************************************)
(* C18: the mandatory escape.  With json_encode_all and json_encode_text   *)
(* off, a string cell becomes a string with no carriage return and no      *)
(* newline: every carriage return is removed, every newline is replaced by *)
(* a backslash and an n, every other character is kept in its place.       *)
(* Escaping the escaped cell again leaves it as it is.                     *)
(***************************************************************************)
C18_MandatoryEscape ==
  (Transformed /\ ~EncodeAll /\ ~EncodeTextSet /\ fx.arg.t = "str") =>
    /\ FirstResult.t = "str"
    /\ CR \notin Range(FirstResult.v)
    /\ LF \notin Range(FirstResult.v)
    /\ FirstResult = Escaped(fx.arg)
    /\ \A i \in 2..Len(fx.res) : fx.res[i] = FirstResult

\* a cell with a carriage return and a newline was escaped twice
C18_Witness ==
  /\ ~EncodeAll /\ ~EncodeTextSet
  /\ fx.arg = Str(<<"a", CR, LF>>)
  /\ Len(fx.res) = 2
  /\ fx.res[1] = Str(<<"a", "\\", "n">>)
  /\ fx.res[2] = fx.res[1]

\* the earlier records of the run of w with the id of the k-th
EarlierSameId(w, k) ==
  {j \in 1..(k - 1) : hist[w].stream[j].id = hist[w].stream[k].id}
\* the k-th record was yielded to a batch that the schema check discarded:
\* it is neither in the batch being read or written nor in the output
InDiscardedBatch(w, k) ==
  /\ hist[w].stream[k].kept
  /\ k \notin Range(hist[w].batchsrc)
  /\ RowOf(w, k) = 0
  /\ pc[w] # "error"

(***************************************************************************)
(* C19: the ids of a discarded batch stay in the seen-identity set.  With  *)
(* allow_duplicates=false and a converter of its own, at every moment:     *)
(* the id of every record read that carries one is in the set, also when   *)
(* its batch was discarded; a record whose id was read before is not       *)
(* yielded and has no row, and duplicates counts exactly those records;    *)
(* so when the first record with an id was in a discarded batch, no record *)
(* with that id has a row in the output.                                   *)
(***************************************************************************)
C19_DiscardedIdsStaySeen ==
  ~conv[ConvOf(1)].allow_duplicates =>
    /\ \A k \in WithId(1) :
         /\ hist[1].stream[k].id \in conv[ConvOf(1)].dataset_ids
         /\ EarlierSameId(1, k) # {} =>
              (~hist[1].stream[k].kept /\ RowOf(1, k) = 0)
         /\ (EarlierSameId(1, k) = {} /\ InDiscardedBatch(1, k)) =>
              \A j \in WithId(1) :
                hist[1].stream[j].id = hist[1].stream[k].id => RowOf(1, j) = 0
    /\ conv[ConvOf(1)].counts.duplicates =
         Cardinality({k \in WithId(1) : EarlierSameId(1, k) # {}})

\* tweet 1 first comes in a batch of its own with an undeclared field; the
\* next batch holds tweet 2 and tweet 1 again: only tweet 2 gets a row
C19_Witness ==
  /\ ~conv[ConvOf(1)].allow_duplicates
  /\ pc[1] = "done"
  /\ batch_size[1] = 1
  /\ input = <<JsonLine(<<Tweet1Extra>>), JsonLine(<<Tweet2, Tweet1>>)>>
  /\ hist[1].batches[1].discarded /\ ~hist[1].batches[2].discarded
  /\ InDiscardedBatch(1, 1)
  /\ hist[1].final.duplicates = 1
  /\ hist[1].final.rows = 1
  /\ Len(RowLines(1)) = 1
  /\ RowOf(1, 2) = 1 /\ RowOf(1, 3) = 0

====
